---- MODULE Spec2Model ----
(***************************************************************************)
(* Model of Laguerre_Gauss_3d/beamprofile.py: the spectrum amplitudes      *)
(* f_Gauss_spherical and f_Laguerre_Gauss_spherical, complex_dblquad, and  *)
(* the class PsiSpherical (constructor, __call__, phase, integrand).       *)
(*                                                                         *)
(* Numbers.  Angles live on a grid on which everything the code computes   *)
(* is exact: theta in {0, pi/4, pi/2} and phi in quarter turns, both given *)
(* in units of pi/12.  On that grid 4*sin(theta)^2 is an integer and       *)
(* cexp(1j*m*phi) is a power of i.  A spectrum amplitude is kept as the    *)
(* exact real/complex number                                               *)
(*      exp(-E/16) * c * (pi/12)^u * (re + i*im)                           *)
(* with integers E, c, u, re, im; exp, sqrt and the quadrature are never   *)
(* approximated: their results are terms over exact arguments.             *)
(***************************************************************************)
EXTENDS Integers, Sequences, FiniteSets, TLC

(***************************************************************************)
(* Bounds of the model and input sets.  MaxCalls bounds the number of      *)
(* amplitude calls made on the instance; Threads are the evaluation        *)
(* contexts that call it, one call at a time each.  A quadrature that      *)
(* raises does so by a choice of the environment at each invocation; one   *)
(* that returns is a function of what the integrand reads.                 *)
(***************************************************************************)
MaxCalls == 2

Threads == {"t1", "t2"}
Keys == {"W_y", "k", "m"}
WVals == {1}
KVals == {0, 2}
MVals == {-1, 0, 2}
XVals == {-2}
Points == {[x |-> 0, y |-> 0, z |-> 1], [x |-> 0, y |-> 1, z |-> 0],
           [x |-> 1, y |-> 0, z |-> 1]}

(* Angles in units of pi/12: 2*math.pi and math.pi/2, and the grid. *)
TwoPi == 24
HalfPi == 6
ThetaGrid == {0, 3, 6}
PhiGrid == {0, 6, 12, 18}

Restrict(d, D) == [key \in D |-> d[key]]
ParamDicts == {Restrict(d, D) : d \in [W_y : WVals, k : KVals, m : MVals],
                                D \in SUBSET Keys}

EmptyDict == [key \in {} |-> 0]
None == [kind |-> "none"]

(***************************************************************************)
(* Exceptions: type(e).__name__ and str(e).                                *)
(***************************************************************************)
KeyError(key) == [type |-> "KeyError", msg |-> "'" \o key \o "'"]
QuadErrors == {[type |-> "ZeroDivisionError", msg |-> "float division by zero"]}
SystemExit == [type |-> "SystemExit", msg |-> ""]

(***************************************************************************)
(* Trigonometry on the grid.  Sin2x4(t) = 4*sin(theta)^2 for theta =       *)
(* t*pi/12; SinQ and CosQ are sin and cos of a multiple p of pi/12 that is *)
(* a whole number of quarter turns.                                        *)
(***************************************************************************)
Sin2x4(t) == CASE t = 0 -> 0 [] t = 3 -> 2 [] t = 6 -> 4
sin(t) == [sqrt4 |-> Sin2x4(t)]
cos(t) == [sqrt4 |-> 4 - Sin2x4(t)]
SinQ(p) == CASE p % 24 = 0 -> 0 [] p % 24 = 6 -> 1
              [] p % 24 = 12 -> 0 [] p % 24 = 18 -> -1
CosQ(p) == SinQ(p + 6)
abs(n) == IF n < 0 THEN -n ELSE n

(* Mutant of PyPow: 0**0 taken as 0. *)
RECURSIVE PyPow_zero(_, _)
PyPow_zero(b, e) == IF b = 0 THEN 0 ELSE IF e = 0 THEN 1 ELSE b * PyPow_zero(b, e - 1)

(* Python's b**e for an exponent e >= 0; 0.0**0 is 1.0. *)
RECURSIVE PyPow(_, _)
PyPow(b, e) == IF e = 0 THEN 1 ELSE b * PyPow(b, e - 1)

(* Python's == between a float and a complex compares the numbers. *)
PyEq(a, b) ==
    \/ a.c = 0 /\ b.c = 0
    \/ a.E = b.E /\ a.c = b.c /\ a.u = b.u /\ a.re = b.re /\ a.im = b.im

f_Gauss_spherical(sin_theta, theta, phi, params) ==
    LET W_y == params["W_y"]
        k == params["k"]
    IN  [ty |-> "float", E |-> (k * W_y) * (k * W_y) * sin_theta.sqrt4,
         c |-> 1, u |-> 0, re |-> 1, im |-> 0]

f_Laguerre_Gauss_spherical(sin_theta, theta, phi, params) ==
    LET m == params["m"]
        g == f_Gauss_spherical(sin_theta, theta, phi, params)
    IN  [ty |-> "complex", E |-> g.E,
         c |-> g.c * PyPow(theta, abs(m)), u |-> g.u + abs(m),
         re |-> g.re * CosQ(m * phi), im |-> g.re * SinQ(m * phi)]

(* The keys a spectrum function reads from params, in the order it reads. *)
KeysRead(f) == IF f = "f_Gauss_spherical" THEN <<"W_y", "k">>
               ELSE <<"m", "W_y", "k">>

Apply(f, sin_theta, theta, phi, params) ==
    IF f = "f_Gauss_spherical"
    THEN f_Gauss_spherical(sin_theta, theta, phi, params)
    ELSE f_Laguerre_Gauss_spherical(sin_theta, theta, phi, params)

VARIABLES ctor, given, ctorExc, self, pc, r, callno, real, imag, calls,
          caught, outcome, stdout, hist, returned, fin, fout,
          sets, bessel, plot

evalvars == <<fin, fout, sets, bessel, plot>>
vars == <<ctor, given, ctorExc, self, pc, r, callno, real, imag, calls,
          caught, outcome, stdout, hist, returned, fin, fout,
          sets, bessel, plot>>

(***************************************************************************)
(* PsiSpherical.phase and PsiSpherical.integrand at one grid angle.  The   *)
(* phase k*(sin(theta)*(y*sin(phi) - z*cos(phi)) + cos(theta)*x) is kept   *)
(* as its two exact coefficients of sin(theta) and cos(theta).             *)
(***************************************************************************)
phase(theta, phi, x, y, z) ==
    [sinc |-> self.k * (y * SinQ(phi) - z * CosQ(phi)), cosc |-> self.k * x]

integrand_with(f, theta, phi, ry, rz) ==
    [jac |-> <<sin(theta), cos(theta)>>,
     f |-> Apply(f, sin(theta), theta, phi, self.params),
     cexp |-> phase(theta, phi, self.x, ry, rz)]

integrand(theta, phi, ry, rz) == integrand_with(self.f, theta, phi, ry, rz)

(* The exception the integrand raises at its first evaluation, or None. *)
IntegrandRaises ==
    LET ks == KeysRead(self.f)
        missing == {i \in 1..Len(ks) : ks[i] \notin DOMAIN self.params}
    IN  IF missing = {} THEN None
        ELSE KeyError(ks[CHOOSE i \in missing : \A j \in missing : i <= j])

(* The bound method self.integrand handed to complex_dblquad, as the      *)
(* function it is on the grid for the extra arguments (ry, rz).            *)
BoundIntegrand(ry, rz) ==
    [an \in ThetaGrid \X PhiGrid \X {ry} \X {rz} |->
        integrand(an[1], an[2], an[3], an[4])]

real_func(x, y, func, ry, rz) == [part |-> "real", of |-> func[<<x, y, ry, rz>>]]
imag_func(x, y, func, ry, rz) == [part |-> "imag", of |-> func[<<x, y, ry, rz>>]]

(***************************************************************************)
(* scipy's dblquad(fn, a, b, gfun, hfun, (func, ry, rz)): the integral of  *)
(* fn over the outer variable in [a, b] and the inner one in [gfun, hfun], *)
(* as the term made of the integrand's exact values on the grid, with the  *)
(* error estimate.                                                         *)
(***************************************************************************)
dblquad(part, a, b, gfun, hfun, func, ry, rz) ==
    LET dom == {an \in ThetaGrid \X PhiGrid :
                    gfun <= an[1] /\ an[1] <= hfun /\ a <= an[2] /\ an[2] <= b}
    IN  [integral |-> [an \in dom |->
                          IF part = "real" THEN real_func(an[1], an[2], func, ry, rz)
                          ELSE imag_func(an[1], an[2], func, ry, rz)],
         abserr |-> part]

(* Mutant of QuadArgs: the imaginary part is integrated at (rz, ry). *)
QuadArgs_swapped(t, part) ==
    [part |-> part, a |-> 0, b |-> TwoPi, gfun |-> 0, hfun |-> HalfPi,
     func |-> "self.integrand",
     ry |-> IF part = "imag" THEN r[t].z ELSE r[t].y,
     rz |-> IF part = "imag" THEN r[t].y ELSE r[t].z]

(* The arguments complex_dblquad hands to dblquad for one part. *)
QuadArgs(t, part) ==
    [part |-> part, a |-> 0, b |-> TwoPi, gfun |-> 0, hfun |-> HalfPi,
     func |-> "self.integrand", ry |-> r[t].y, rz |-> r[t].z]

(* print(type(e).__name__ + ":", e) *)
Diag(e) == (e.type \o ":") \o " " \o e.msg

(* Mutant of ComplexDblquadRaise: the exception is wrapped. *)
ComplexDblquadRaise_wrapped(e) == [type |-> "IntegrationError", msg |-> Diag(e)]

(* complex_dblquad has no handler: what dblquad raises leaves it as it is. *)
ComplexDblquadRaise(e) == e

(* Mutant of SelectModel: the test on the order is inverted. *)
SelectModel_inverted(m) ==
    IF m # 0 THEN "f_Gauss_spherical" ELSE "f_Laguerre_Gauss_spherical"

(* The model the constructor selects for order m. *)
SelectModel(m) == IF m = 0 THEN "f_Gauss_spherical" ELSE "f_Laguerre_Gauss_spherical"

(* self.k**2 * (real + 1j*imag) *)
Scale(k, re, im) == [k2 |-> k * k, re |-> re.integral, im |-> im.integral]

Init ==
    /\ ctor = "none"
    /\ given = None
    /\ ctorExc = None
    /\ self = EmptyDict
    /\ pc = [t \in Threads |-> "idle"]
    /\ r = [t \in Threads |-> None]
    /\ callno = [t \in Threads |-> 0]
    /\ real = [t \in Threads |-> None]
    /\ imag = [t \in Threads |-> None]
    /\ calls = [t \in Threads |-> <<>>]
    /\ caught = [t \in Threads |-> None]
    /\ outcome = [t \in Threads |-> None]
    /\ stdout = <<>>
    /\ hist = <<>>
    /\ returned = {}
    /\ fin = None
    /\ fout = None
    /\ sets = <<>>
    /\ bessel = [pc |-> "start"]
    /\ plot = [pc |-> "start"]

(* Mutant of Construct: the constructor validates params and rejects a     *)
(* missing key, k <= 0 and a negative order.                               *)
Construct_validating(x, params) ==
    /\ ctor = "none"
    /\ given' = [x |-> x, params |-> params]
    /\ IF Keys \subseteq DOMAIN params /\ params["k"] > 0 /\ params["m"] >= 0
       THEN /\ self' = [x |-> x, params |-> params, k |-> params["k"],
                        m |-> params["m"], f |-> SelectModel(params["m"])]
            /\ ctorExc' = None
            /\ ctor' = "done"
       ELSE /\ self' = [x |-> x, params |-> params]
            /\ ctorExc' = [type |-> "ConfigurationError", msg |-> "invalid params"]
            /\ ctor' = "failed"
    /\ UNCHANGED <<pc, r, callno, real, imag, calls, caught, outcome, stdout,
                   hist, returned>>
    /\ UNCHANGED evalvars

(***************************************************************************)
(* PsiSpherical.__init__(x, params): the attributes are assigned in order, *)
(* and a params without 'k' or 'm' raises KeyError at the subscript.       *)
(***************************************************************************)
Construct(x, params) ==
    /\ ctor = "none"
    /\ given' = [x |-> x, params |-> params]
    /\ IF "k" \notin DOMAIN params
       THEN /\ self' = [x |-> x, params |-> params]
            /\ ctorExc' = KeyError("k")
            /\ ctor' = "failed"
       ELSE IF "m" \notin DOMAIN params
       THEN /\ self' = [x |-> x, params |-> params, k |-> params["k"]]
            /\ ctorExc' = KeyError("m")
            /\ ctor' = "failed"
       ELSE /\ self' = [x |-> x, params |-> params, k |-> params["k"],
                        m |-> params["m"], f |-> SelectModel(params["m"])]
            /\ ctorExc' = None
            /\ ctor' = "done"
    /\ UNCHANGED <<pc, r, callno, real, imag, calls, caught, outcome, stdout,
                   hist, returned>>
    /\ UNCHANGED evalvars

(***************************************************************************)
(* PsiSpherical.__call__(r), one step per statement that another call can  *)
(* interleave with.  Call: the call is entered with its argument.          *)
(***************************************************************************)
Call(t, p) ==
    /\ ctor = "done"
    /\ pc[t] = "idle"
    /\ Len(hist) < MaxCalls
    /\ hist' = Append(hist, p)
    /\ callno' = [callno EXCEPT ![t] = Len(hist) + 1]
    /\ r' = [r EXCEPT ![t] = p]
    /\ real' = [real EXCEPT ![t] = None]
    /\ imag' = [imag EXCEPT ![t] = None]
    /\ calls' = [calls EXCEPT ![t] = <<>>]
    /\ caught' = [caught EXCEPT ![t] = None]
    /\ outcome' = [outcome EXCEPT ![t] = None]
    /\ pc' = [pc EXCEPT ![t] = "real"]
    /\ UNCHANGED <<ctor, given, ctorExc, self, stdout, returned>>
    /\ UNCHANGED evalvars

(* Mutant of Raise: the failure is swallowed and the call goes on. *)
Raise_swallowed(t, part, e) ==
    /\ calls' = [calls EXCEPT ![t] = Append(@, [args |-> QuadArgs(t, part),
                                                 raised |-> e])]
    /\ caught' = [caught EXCEPT ![t] = ComplexDblquadRaise(e)]
    /\ pc' = [pc EXCEPT ![t] = IF part = "real" THEN "imag" ELSE "ret"]

(* One dblquad of complex_dblquad raises e: the exception reaches the      *)
(* except clause of __call__.                                              *)
Raise(t, part, e) ==
    /\ calls' = [calls EXCEPT ![t] = Append(@, [args |-> QuadArgs(t, part),
                                                 raised |-> e])]
    /\ caught' = [caught EXCEPT ![t] = ComplexDblquadRaise(e)]
    /\ pc' = [pc EXCEPT ![t] = "except"]

(* Mutant of DblquadReal: the real part is kept in one place shared by    *)
(* all calls instead of in a local of the call.                            *)
DblquadReal_shared(t) ==
    /\ pc[t] = "real"
    /\ IntegrandRaises = None
    /\ LET a == QuadArgs(t, "real")
           res == dblquad("real", a.a, a.b, a.gfun, a.hfun,
                              BoundIntegrand(a.ry, a.rz), a.ry, a.rz)
       IN  /\ real' = [u \in Threads |-> res]
           /\ calls' = [calls EXCEPT ![t] = Append(@, [args |-> a, raised |-> None])]
    /\ pc' = [pc EXCEPT ![t] = "imag"]
    /\ UNCHANGED <<ctor, given, ctorExc, self, r, callno, imag, caught, outcome,
                   stdout, hist, returned>>
    /\ UNCHANGED evalvars

(* real, real_tol = dblquad(real_func, a, b, gfun, hfun, (func, ry, rz)) *)
DblquadReal(t) ==
    /\ pc[t] = "real"
    /\ \/ /\ IntegrandRaises # None
          /\ Raise(t, "real", IntegrandRaises)
          /\ UNCHANGED real
       \/ /\ IntegrandRaises = None
          /\ \E e \in QuadErrors : Raise(t, "real", e)
          /\ UNCHANGED real
       \/ /\ IntegrandRaises = None
          /\ LET a == QuadArgs(t, "real")
                 res == dblquad("real", a.a, a.b, a.gfun, a.hfun,
                              BoundIntegrand(a.ry, a.rz), a.ry, a.rz)
             IN  /\ real' = [real EXCEPT ![t] = res]
                 /\ calls' = [calls EXCEPT ![t] =
                                 Append(@, [args |-> a, raised |-> None])]
          /\ pc' = [pc EXCEPT ![t] = "imag"]
          /\ UNCHANGED caught
    /\ UNCHANGED <<ctor, given, ctorExc, self, r, callno, imag, outcome, stdout,
                   hist, returned>>
    /\ UNCHANGED evalvars

(* Mutant of DblquadImag: the phase of the imaginary part takes the x of   *)
(* the point instead of self.x.                                            *)
DblquadImag_pointx(t) ==
    /\ pc[t] = "imag"
    /\ \/ /\ IntegrandRaises # None
          /\ Raise(t, "imag", IntegrandRaises)
          /\ UNCHANGED imag
       \/ /\ IntegrandRaises = None
          /\ \E e \in QuadErrors : Raise(t, "imag", e)
          /\ UNCHANGED imag
       \/ /\ IntegrandRaises = None
          /\ LET a == QuadArgs(t, "imag")
                 res == dblquad("imag", a.a, a.b, a.gfun, a.hfun,
                              BoundIntegrand(a.ry, a.rz), a.ry, a.rz)
                 atx == [an \in DOMAIN res.integral |->
                            [res.integral[an] EXCEPT
                                !.of.cexp.cosc = self.k * r[t].x]]
             IN  /\ imag' = [imag EXCEPT ![t] = [res EXCEPT !.integral = atx]]
                 /\ calls' = [calls EXCEPT ![t] =
                                 Append(@, [args |-> a, raised |-> None])]
          /\ pc' = [pc EXCEPT ![t] = "ret"]
          /\ UNCHANGED caught
    /\ UNCHANGED <<ctor, given, ctorExc, self, r, callno, real, outcome, stdout,
                   hist, returned>>
    /\ UNCHANGED evalvars

(* imag, imag_tol = dblquad(imag_func, a, b, gfun, hfun, (func, ry, rz)) *)
DblquadImag(t) ==
    /\ pc[t] = "imag"
    /\ \/ /\ IntegrandRaises # None
          /\ Raise(t, "imag", IntegrandRaises)
          /\ UNCHANGED imag
       \/ /\ IntegrandRaises = None
          /\ \E e \in QuadErrors : Raise(t, "imag", e)
          /\ UNCHANGED imag
       \/ /\ IntegrandRaises = None
          /\ LET a == QuadArgs(t, "imag")
                 res == dblquad("imag", a.a, a.b, a.gfun, a.hfun,
                              BoundIntegrand(a.ry, a.rz), a.ry, a.rz)
             IN  /\ imag' = [imag EXCEPT ![t] = res]
                 /\ calls' = [calls EXCEPT ![t] =
                                 Append(@, [args |-> a, raised |-> None])]
          /\ pc' = [pc EXCEPT ![t] = "ret"]
          /\ UNCHANGED caught
    /\ UNCHANGED <<ctor, given, ctorExc, self, r, callno, real, outcome, stdout,
                   hist, returned>>
    /\ UNCHANGED evalvars

(* Mutant of Return: the call leaves a first-call flag on the instance. *)
Return_flagging(t) ==
    /\ pc[t] = "ret"
    /\ LET value == Scale(self.k, real[t], imag[t])
       IN  /\ outcome' = [outcome EXCEPT ![t] = [kind |-> "return", value |-> value]]
           /\ returned' = returned \cup
                             {[call |-> callno[t], r |-> r[t], value |-> value]}
    /\ self' = [a \in DOMAIN self \cup {"called"} |->
                    IF a = "called" THEN TRUE ELSE self[a]]
    /\ pc' = [pc EXCEPT ![t] = "idle"]
    /\ UNCHANGED <<ctor, given, ctorExc, r, callno, real, imag, calls,
                   caught, stdout, hist>>
    /\ UNCHANGED evalvars

(* Mutant of Return: the scaling is done in place on self.k. *)
Return_rescaling(t) ==
    /\ pc[t] = "ret"
    /\ LET value == Scale(self.k, real[t], imag[t])
       IN  /\ outcome' = [outcome EXCEPT ![t] = [kind |-> "return", value |-> value]]
           /\ returned' = returned \cup
                             {[call |-> callno[t], r |-> r[t], value |-> value]}
    /\ self' = [self EXCEPT !.k = self.k * self.k]
    /\ pc' = [pc EXCEPT ![t] = "idle"]
    /\ UNCHANGED <<ctor, given, ctorExc, r, callno, real, imag, calls,
                   caught, stdout, hist>>
    /\ UNCHANGED evalvars

(* return real + 1j*imag, real_tol, imag_tol; return self.k**2 * result *)
Return(t) ==
    /\ pc[t] = "ret"
    /\ LET value == Scale(self.k, real[t], imag[t])
       IN  /\ outcome' = [outcome EXCEPT ![t] = [kind |-> "return", value |-> value]]
           /\ returned' = returned \cup
                             {[call |-> callno[t], r |-> r[t], value |-> value]}
    /\ pc' = [pc EXCEPT ![t] = "idle"]
    /\ UNCHANGED <<ctor, given, ctorExc, self, r, callno, real, imag, calls,
                   caught, stdout, hist>>
    /\ UNCHANGED evalvars

(* Mutant of PrintDiag: the handler exits without the diagnostic. *)
PrintDiag_silent(t) ==
    /\ pc[t] = "except"
    /\ pc' = [pc EXCEPT ![t] = "exit"]
    /\ UNCHANGED <<ctor, given, ctorExc, self, r, callno, real, imag, calls,
                   caught, outcome, stdout, hist, returned>>
    /\ UNCHANGED evalvars

(* except Exception as e: print(type(e).__name__ + ":", e) *)
PrintDiag(t) ==
    /\ pc[t] = "except"
    /\ stdout' = Append(stdout, Diag(caught[t]))
    /\ pc' = [pc EXCEPT ![t] = "exit"]
    /\ UNCHANGED <<ctor, given, ctorExc, self, r, callno, real, imag, calls,
                   caught, outcome, hist, returned>>
    /\ UNCHANGED evalvars

(* sys.exit(): SystemExit leaves __call__; the call returns nothing. *)
SysExit(t) ==
    /\ pc[t] = "exit"
    /\ outcome' = [outcome EXCEPT ![t] = [kind |-> "raise", exc |-> SystemExit]]
    /\ pc' = [pc EXCEPT ![t] = "exited"]
    /\ UNCHANGED <<ctor, given, ctorExc, self, r, callno, real, imag, calls,
                   caught, stdout, hist, returned>>
    /\ UNCHANGED evalvars

Next ==
    \/ \E x \in XVals, params \in ParamDicts : Construct(x, params)
    \/ \E t \in Threads, p \in Points : Call(t, p)
    \/ \E t \in Threads : DblquadReal(t)
    \/ \E t \in Threads : DblquadImag(t)
    \/ \E t \in Threads : Return(t)
    \/ \E t \in Threads : PrintDiag(t)
    \/ \E t \in Threads : SysExit(t)

Spec == Init /\ [][Next]_vars

(***************************************************************************)
(* The spectrum functions and the integrand as pure functions: on a        *)
(* constructed instance, both spectrum functions and the integrand built   *)
(* on each of them are evaluated at one angle of the grid and one point.   *)
(***************************************************************************)
EvalSpectrum(theta, phi, p) ==
    /\ ctor = "done"
    /\ fin' = [theta |-> theta, phi |-> phi, r |-> p]
    /\ fout' =
          IF "W_y" \notin DOMAIN self.params
          THEN [kind |-> "raise", exc |-> KeyError("W_y")]
          ELSE [kind |-> "value",
                gauss |-> f_Gauss_spherical(sin(theta), theta, phi, self.params),
                lg |-> f_Laguerre_Gauss_spherical(sin(theta), theta, phi, self.params),
                with_gauss |-> integrand_with("f_Gauss_spherical", theta, phi, p.y, p.z),
                with_lg |-> integrand_with("f_Laguerre_Gauss_spherical",
                                           theta, phi, p.y, p.z)]
    /\ UNCHANGED <<ctor, given, ctorExc, self, pc, r, callno, real, imag, calls,
                   caught, outcome, stdout, hist, returned, sets, bessel, plot>>

NextF ==
    \/ \E x \in XVals, params \in ParamDicts : Construct(x, params)
    \/ \E theta \in ThetaGrid, phi \in PhiGrid, p \in Points :
          EvalSpectrum(theta, phi, p)

SpecF == Init /\ [][NextF]_vars

(* The statements of __call__ run in sequence: a handler that was entered  *)
(* prints and exits.                                                       *)
FairSpec ==
    Spec /\ \A t \in Threads : WF_vars(PrintDiag(t)) /\ WF_vars(SysExit(t))

(***************************************************************************)
(* Properties.                                                             *)
(***************************************************************************)
Failing == {"except", "exit", "exited"}
Locals(t) == <<pc[t], r[t], callno[t], real[t], imag[t], calls[t], caught[t],
               outcome[t]>>

(* C1: once the instance is constructed, self.f is f_Gauss_spherical       *)
(* exactly when the order m given to the constructor is 0 and              *)
(* f_Laguerre_Gauss_spherical otherwise, in every state any sequence of    *)
(* amplitude calls reaches.                                                *)
C1_ModelFixedAtConstruction ==
    ctor = "done" =>
        /\ (given.params["m"] = 0 <=> self.f = "f_Gauss_spherical")
        /\ (given.params["m"] # 0 <=> self.f = "f_Laguerre_Gauss_spherical")

C1_Witness ==
    /\ ctor = "done"
    /\ self.f = "f_Gauss_spherical"
    /\ Cardinality(returned) >= 2

(* C2: every step of an amplitude call, on the returning and on the        *)
(* failing path, leaves the instance as it was: the same attributes, each  *)
(* with the same value, and no attribute added.                            *)
C2_CallLeavesInstanceUnchanged ==
    [][ctor = "done" =>
          /\ self' = self
          /\ DOMAIN self' = {"x", "params", "k", "m", "f"}
          /\ self'.params = given.params]_vars

C2_Witness ==
    \E t, u \in Threads : outcome[t].kind = "return" /\ pc[u] = "exited"

(* C3: two calls at the same point return the same value, whatever calls   *)
(* were made before each of them.                                          *)
C3_SamePointSameValue ==
    \A a, b \in returned : a.r = b.r => a.value = b.value

C3_Witness ==
    \E a, b \in returned : a.r = b.r /\ a.call # b.call

(* C4: under every interleaving, a step of one call changes the locals of  *)
(* no other call, and a call that returns returns the value of a call at   *)
(* its point run alone.                                                    *)
AloneValue(p) ==
    Scale(self.k,
          dblquad("real", 0, TwoPi, 0, HalfPi, BoundIntegrand(p.y, p.z), p.y, p.z),
          dblquad("imag", 0, TwoPi, 0, HalfPi, BoundIntegrand(p.y, p.z), p.y, p.z))

C4_ConcurrentCallsIndependent ==
    [][\A t \in Threads :
          /\ Locals(t)' # Locals(t) =>
                \A u \in Threads \ {t} : Locals(u)' = Locals(u)
          /\ outcome'[t].kind = "return" => outcome'[t].value = AloneValue(r'[t])]_vars

C4_Witness ==
    \E t, u \in Threads :
        /\ t # u
        /\ outcome[t].kind = "return"
        /\ pc[u] = "imag"
        /\ callno[u] < callno[t]
        /\ r[t] # r[u]

(* C5 as stated: when a partial quadrature raises, complex_dblquad fails   *)
(* with an IntegrationError carrying the original type name and message.   *)
C5_FailsWithIntegrationError ==
    \A t \in Threads :
        pc[t] = "except" =>
            LET e == calls[t][Len(calls[t])].raised
            IN  /\ caught[t].type = "IntegrationError"
                /\ caught[t].msg = e.type \o ": " \o e.msg

(* C5 as amended: when the quadrature of the real or of the imaginary part *)
(* raises, complex_dblquad fails with that very exception, its type name   *)
(* and its message unchanged.                                              *)
C5_OriginalExceptionPropagates ==
    \A t \in Threads :
        pc[t] \in Failing =>
            LET e == calls[t][Len(calls[t])].raised
            IN  /\ e # None
                /\ caught[t].type = e.type
                /\ caught[t].msg = e.msg

C5_Witness ==
    \E t \in Threads :
        /\ pc[t] = "except"
        /\ Len(calls[t]) = 2
        /\ caught[t].type = "ZeroDivisionError"

(* C6: a quadrature that raises is the last one of its call (after a       *)
(* failure of the real part the imaginary part is never integrated), and   *)
(* the call returns no value.                                              *)
C6_FailureEndsTheCall ==
    \A t \in Threads : \A i \in 1..Len(calls[t]) :
        calls[t][i].raised # None =>
            /\ i = Len(calls[t])
            /\ pc[t] \in Failing
            /\ outcome[t].kind # "return"
            /\ \A e \in returned : e.call # callno[t]

C6_Witness ==
    \E t \in Threads :
        /\ pc[t] = "exited"
        /\ Len(calls[t]) = 1
        /\ calls[t][1].raised # None

(* C7: a call in which an exception was raised returns nothing, reaches    *)
(* its exit only after the line "<type>: <message>" of that exception is   *)
(* on the output, does reach it, and takes no step after it.               *)
C7_DiagnosticThenExit ==
    /\ [][\A t \in Threads :
            /\ caught[t] # None =>
                  pc'[t] \in Failing /\ outcome'[t].kind # "return"
            /\ (pc[t] # "exited" /\ pc'[t] = "exited") =>
                  /\ \E i \in 1..Len(stdout) :
                        stdout[i] = caught[t].type \o ": " \o caught[t].msg
                  /\ outcome'[t] = [kind |-> "raise", exc |-> SystemExit]
            /\ pc[t] = "exited" => Locals(t)' = Locals(t)]_vars
    /\ \A t \in Threads : (pc[t] = "except") ~> (pc[t] = "exited")

C7_Witness ==
    \E t \in Threads :
        /\ pc[t] = "exited"
        /\ caught[t].type = "KeyError"
        /\ stdout = <<"KeyError: 'W_y'">>

(* C8: a call invokes dblquad at most twice, first for the real and then   *)
(* for the imaginary part, each time with the bounds 0, 2*pi, 0, pi/2 and  *)
(* the point's (ry, rz); a call that returns has made both invocations and *)
(* returns k**2 * (real + i*imag) of their results.                        *)
C8_TwoQuadraturesScaled ==
    \A t \in Threads :
        /\ Len(calls[t]) <= 2
        /\ \A i \in 1..Len(calls[t]) :
              calls[t][i].args =
                  [part |-> IF i = 1 THEN "real" ELSE "imag",
                   a |-> 0, b |-> TwoPi, gfun |-> 0, hfun |-> HalfPi,
                   func |-> "self.integrand", ry |-> r[t].y, rz |-> r[t].z]
        /\ outcome[t].kind = "return" =>
              /\ Len(calls[t]) = 2
              /\ \A i \in 1..2 : calls[t][i].raised = None
              /\ outcome[t].value =
                    [k2 |-> given.params["k"] * given.params["k"],
                     re |-> dblquad("real", 0, TwoPi, 0, HalfPi,
                                    BoundIntegrand(r[t].y, r[t].z),
                                    r[t].y, r[t].z).integral,
                     im |-> dblquad("imag", 0, TwoPi, 0, HalfPi,
                                    BoundIntegrand(r[t].y, r[t].z),
                                    r[t].y, r[t].z).integral]

C8_Witness ==
    \E t \in Threads :
        /\ outcome[t].kind = "return"
        /\ self.k = 2
        /\ self.f = "f_Laguerre_Gauss_spherical"

(* C9: with params of order m = 0, f_Laguerre_Gauss_spherical equals       *)
(* f_Gauss_spherical at every theta (0 included) and every phi, and the    *)
(* integrand built on either function is the same number.                  *)
C9_LaguerreGaussOrderZeroIsGauss ==
    (ctor = "done" /\ fout.kind = "value" /\ self.params["m"] = 0) =>
        /\ PyEq(fout.lg, fout.gauss)
        /\ fout.with_lg.jac = fout.with_gauss.jac
        /\ fout.with_lg.cexp = fout.with_gauss.cexp
        /\ PyEq(fout.with_lg.f, fout.with_gauss.f)

C9_Witness ==
    /\ ctor = "done"
    /\ fout.kind = "value"
    /\ self.params["m"] = 0
    /\ self.f = "f_Gauss_spherical"
    /\ fin.theta = 0
    /\ fin.phi = 6

(* C10 as stated: a missing or invalid parameter (no W_y, k or m; k <= 0;  *)
(* a negative order) makes construction fail, so a constructed instance    *)
(* holds a complete, valid parameter set and no amplitude call meets a     *)
(* missing parameter.                                                      *)
C10_InvalidParamsRejectedAtConstruction ==
    /\ ctor = "done" =>
          /\ Keys \subseteq DOMAIN self.params
          /\ self.params["k"] > 0
          /\ self.params["m"] >= 0
    /\ \A t \in Threads : caught[t] # None => caught[t].type # "KeyError"

(* C10 as amended: construction fails, with KeyError, exactly when params  *)
(* has no 'k' or no 'm'; the values are not validated (k <= 0 and a        *)
(* negative order are accepted); a missing 'W_y' is met only by the first  *)
(* quadrature of an amplitude call, which raises KeyError('W_y'), so that  *)
(* no call on such an instance returns a value.                            *)
C10_OnlyMissingKAndMRejected ==
    /\ ctor = "failed" <=>
          (given # None /\ ~({"k", "m"} \subseteq DOMAIN given.params))
    /\ ctor = "failed" =>
          /\ ctorExc = [type |-> "KeyError",
                        msg |-> IF "k" \notin DOMAIN given.params
                                THEN "'k'" ELSE "'m'"]
          /\ hist = <<>>
    /\ ctor = "done" =>
          /\ ctorExc = None
          /\ self.params = given.params
          /\ \A t \in Threads :
                IF "W_y" \in DOMAIN self.params
                THEN caught[t] # None => caught[t].type # "KeyError"
                ELSE /\ pc[t] \in {"idle", "real"} \cup Failing
                     /\ outcome[t].kind # "return"
                     /\ returned = {}
                     /\ pc[t] \in Failing =>
                           /\ caught[t] = [type |-> "KeyError", msg |-> "'W_y'"]
                           /\ Len(calls[t]) = 1

C10_Witness ==
    /\ ctor = "done"
    /\ "W_y" \notin DOMAIN self.params
    /\ self.k <= 0
    /\ self.m < 0
    /\ \E t \in Threads : pc[t] = "exited" /\ caught[t].type = "KeyError"

(***************************************************************************)
(* scripts/Bessel_2d/Bessel2d.py: the command line and the choices main    *)
(* derives from args.s_pol.  A command line is the text given to -s_pol,   *)
(* -n1 and -n2, or the absence of the option; indices are in hundredths.   *)
(***************************************************************************)
psivars == <<ctor, given, ctorExc, self, pc, r, callno, real, imag, calls,
             caught, outcome, stdout, hist, returned, fin, fout, sets>>

Absent == [given |-> FALSE, text |-> ""]
Option(text) == [given |-> TRUE, text |-> text]
SPolTexts == {"False", "True", "false", "0", ""}
N1Texts == {"1.0", "1.5"}
N2Texts == {"0.65", "1.5"}
Argvs ==
    [s_pol : {Absent} \cup {Option(t) : t \in SPolTexts},
     n1 : {Absent} \cup {Option(t) : t \in N1Texts},
     n2 : {Absent} \cup {Option(t) : t \in N2Texts}]

(* bool(text) of a str: an empty string is false, every other one true.    *)
PyBool(text) == text # ""

(* float(text), in hundredths.                                             *)
PyFloat(text) ==
    CASE text = "1.0" -> 100
      [] text = "0.65" -> 65
      [] text = "1.5" -> 150

(* argparse: an option that is given is converted by its type, an absent   *)
(* one takes its default unconverted.                                      *)
add_argument(opt, type, default) ==
    IF ~opt.given THEN default
    ELSE IF type = "bool" THEN PyBool(opt.text) ELSE PyFloat(opt.text)

parse_args(argv) ==
    [s_pol |-> add_argument(argv.s_pol, "bool", TRUE),
     n1 |-> add_argument(argv.n1, "float", 100),
     n2 |-> add_argument(argv.n2, "float", 65)]

(* parser.parse_args() at the end of the script.                           *)
ParseArgs(argv) ==
    /\ bessel.pc = "start"
    /\ bessel' = [pc |-> "parsed", argv |-> argv, args |-> parse_args(argv)]
    /\ UNCHANGED <<psivars, plot>>

(* main(args): the parameters read from args and the polarisation line.    *)
MainReadArgs ==
    /\ bessel.pc = "parsed"
    /\ bessel' = [pc |-> "params", argv |-> bessel.argv, args |-> bessel.args,
                  s_pol |-> bessel.args.s_pol,
                  n1 |-> bessel.args.n1, n2 |-> bessel.args.n2,
                  printed |-> IF bessel.args.s_pol THEN "s" ELSE "p"]
    /\ UNCHANGED <<psivars, plot>>

(* sources = [mp.Source(..., component=mp.Ez if s_pol else mp.Ey, ...)]    *)
DefineSources ==
    /\ bessel.pc = "params"
    /\ bessel' = [pc |-> "sources", argv |-> bessel.argv, args |-> bessel.args,
                  s_pol |-> bessel.s_pol, n1 |-> bessel.n1, n2 |-> bessel.n2,
                  printed |-> bessel.printed,
                  component |-> IF bessel.s_pol THEN "Ez" ELSE "Ey"]
    /\ UNCHANGED <<psivars, plot>>

(* sim.run(..., at_end(output_efield_z if s_pol else output_efield_y),     *)
(* at_end(output_efield2)), with output_efield2 naming e2_s or e2_p.       *)
Run ==
    /\ bessel.pc = "sources"
    /\ bessel' = [pc |-> "done", argv |-> bessel.argv, args |-> bessel.args,
                  s_pol |-> bessel.s_pol, n1 |-> bessel.n1, n2 |-> bessel.n2,
                  printed |-> bessel.printed, component |-> bessel.component,
                  at_end |-> IF bessel.s_pol THEN "output_efield_z"
                                             ELSE "output_efield_y",
                  name |-> IF bessel.s_pol THEN "e2_s" ELSE "e2_p"]
    /\ UNCHANGED <<psivars, plot>>

NextBessel ==
    \/ \E argv \in Argvs : ParseArgs(argv)
    \/ MainReadArgs
    \/ DefineSources
    \/ Run

SpecBessel == Init /\ [][NextBessel]_vars

(* C11: when the script has run with -s_pol False on its command line, it  *)
(* ran in p polarisation: s_pol is false, the source component is Ey, the  *)
(* field written at the end of the run is output_efield_y and the          *)
(* intensity output is named e2_p; a run in s polarisation (Ez, e2_s) had  *)
(* the option absent or given as true.                                     *)
C11_SPolFalseSelectsP ==
    bessel.pc = "done" =>
       /\ bessel.argv.s_pol = Option("False") =>
             /\ ~bessel.s_pol
             /\ bessel.component = "Ey"
             /\ bessel.at_end = "output_efield_y"
             /\ bessel.name = "e2_p"
       /\ (bessel.component = "Ez" \/ bessel.name = "e2_s") =>
             bessel.argv.s_pol \in {Absent, Option("True")}

(* The run of "-s_pol False": it ends in s polarisation.                   *)
C11_SPolFalseRunsS ==
    /\ bessel.pc = "done"
    /\ bessel.argv.s_pol = Option("False")
    /\ bessel.s_pol
    /\ bessel.component = "Ez"
    /\ bessel.at_end = "output_efield_z"
    /\ bessel.name = "e2_s"
    /\ bessel.printed = "s"

(***************************************************************************)
(* The caller keeps the dict it passed to PsiSpherical: self.params is     *)
(* that same object, so an assignment params[key] = val made by the caller *)
(* between two calls is seen through self.params, while self.k, self.m and *)
(* self.f keep what __init__ read.                                         *)
(***************************************************************************)
MaxSets == 1
SetVals(key) == CASE key = "W_y" -> WVals \cup {2}
                  [] key = "k" -> KVals
                  [] key = "m" -> MVals

DictSet(d, key, val) ==
    [j \in DOMAIN d \cup {key} |-> IF j = key THEN val ELSE d[j]]

SetParam(key, val) ==
    /\ ctor = "done"
    /\ \A t \in Threads : pc[t] = "idle"
    /\ Len(sets) < MaxSets
    /\ sets' = Append(sets, [key |-> key, val |-> val, after |-> Len(hist)])
    /\ self' = [self EXCEPT !.params = DictSet(@, key, val)]
    /\ UNCHANGED <<ctor, given, ctorExc, pc, r, callno, real, imag, calls,
                   caught, outcome, stdout, hist, returned, fin, fout,
                   bessel, plot>>

NextMut ==
    \/ Next
    \/ \E key \in Keys : \E val \in SetVals(key) : SetParam(key, val)

SpecMut == Init /\ [][NextMut]_vars

(* C12: the parameter values of an instance are those of its construction: *)
(* after the caller assigns to an entry of the params dict it passed, a    *)
(* call returns what a call at the same point returned before, the k of    *)
(* the phase and of the k**2 scaling is the k the spectrum function reads, *)
(* and the model chosen from m is the one of the m the spectrum function   *)
(* reads.                                                                  *)
C12_ParamsFixedAtConstruction ==
    ctor = "done" =>
       /\ \A a, b \in returned : a.r = b.r => a.value = b.value
       /\ "k" \in DOMAIN self.params /\ self.k = self.params["k"]
       /\ "m" \in DOMAIN self.params /\ self.m = self.params["m"]
       /\ self.f = SelectModel(self.params["m"])

(* A call made after the caller assigned to params["k"] returns another    *)
(* value than the call at the same point made before the assignment.       *)
C12_CallSeesCallersAssignment ==
    /\ ctor = "done"
    /\ sets # <<>>
    /\ sets[1].key = "k"
    /\ self.k # 0
    /\ self.k # self.params["k"]
    /\ \E a, b \in returned :
          /\ a.r = b.r
          /\ a.call <= sets[1].after
          /\ b.call > sets[1].after
          /\ a.value # b.value

(* C13: a returned amplitude depends on its point only through y and z:    *)
(* two calls at points that differ only in x return the same value, and    *)
(* the longitudinal coordinate in the phase of every sample of both        *)
(* quadratures is the x given to the constructor.                          *)
C13_PointXNeverRead ==
    /\ \A a, b \in returned :
          (a.r.y = b.r.y /\ a.r.z = b.r.z) => a.value = b.value
    /\ \A a \in returned :
          /\ \A an \in DOMAIN a.value.re :
                a.value.re[an].of.cexp.cosc = self.k * given.x
          /\ \A an \in DOMAIN a.value.im :
                a.value.im[an].of.cexp.cosc = self.k * given.x

C13_Witness ==
    /\ ctor = "done"
    /\ self.k # 0
    /\ \E a, b \in returned :
          /\ a.r.y = b.r.y
          /\ a.r.z = b.r.z
          /\ a.r.x # b.r.x
          /\ a.r.x # given.x
          /\ b.r.x # given.x

(***************************************************************************)
(* Laguerre_Gauss_3d/plot_2d_matplotlib.py: the indices of the cut-plane.  *)
(* Lengths that are not whole numbers of pixels are kept doubled (names    *)
(* ending in 2), so that the half pixels of center stay exact.  The        *)
(* script names no interpreter: hf.keys()[0] is Python 2, where / on ints  *)
(* is floor division and round goes away from zero; under Python 3 / is    *)
(* true division and round goes to even, and numpy from 1.20 on floors     *)
(* where older ones truncate in linspace(..., dtype=int).                  *)
(***************************************************************************)
MaxShape == 4
MaxVecLength2 == 5
Envs == {"py2", "py3", "py3_numpy120"}
Shapes == (2..MaxShape) \X (2..MaxShape) \X (2..MaxShape)
TanVals == {0, 1, 2}

floor(v2) == v2 \div 2
ceil(v2) == -((-v2) \div 2)
int(v2) == IF v2 >= 0 THEN v2 \div 2 ELSE -((-v2) \div 2)
round(v2, env) ==
    IF v2 % 2 = 0 THEN v2 \div 2
    ELSE IF env = "py2" THEN (IF v2 > 0 THEN ceil(v2) ELSE floor(v2))
    ELSE IF floor(v2) % 2 = 0 THEN floor(v2) ELSE ceil(v2)
hypot(a, b) == CHOOSE h \in 0..(abs(a) + abs(b)) :
                  h * h <= a * a + b * b /\ (h + 1) * (h + 1) > a * a + b * b

(* center[i] for a dimension of N pixels, doubled.                         *)
center(N, env) ==
    IF env = "py2"
    THEN (IF N % 2 = 0 THEN 2 * ((N - 1) \div 2) ELSE 2 * (N \div 2))
    ELSE (IF N % 2 = 0 THEN N - 1 ELSE N)

(* np.linspace(start, stop, num, dtype=np.int): num evenly spaced samples  *)
(* from start to stop, both included, converted to integers.               *)
linspace(start, stop, num, env) ==
    [i \in 1..num |->
        IF num = 1 THEN start
        ELSE LET nu == start * (num - 1) + (i - 1) * (stop - start)
                 de == num - 1
             IN  IF env = "py3_numpy120" \/ nu >= 0 THEN nu \div de
                 ELSE -((-nu) \div de)]

(* cut_inc = (x0, y0, x1, y1), with vec_length * tan(delta_rad) as T2.     *)
cut_inc(c, vec_length2, T2, env) ==
    [x0 |-> int(c[1] - vec_length2),
     y0 |-> floor(c[2] + 2 * round(-T2, env)),
     x1 |-> int(c[1] - vec_length2),
     y1 |-> ceil(c[2] + 2 * round(T2, env))]

(* data[cutoff:-cutoff, ...], new_shape and center.                        *)
LoadData(shape, env) ==
    /\ plot.pc = "start"
    /\ plot' = [pc |-> "loaded", env |-> env, new_shape |-> shape,
                center |-> <<center(shape[1], env), center(shape[2], env),
                             center(shape[3], env)>>]
    /\ UNCHANGED <<psivars, bessel>>

(* SLICE = "cut_inc": the end points, width and the index arrays x, y, z.  *)
CutPlane(vec_length2, tan) ==
    /\ plot.pc = "loaded"
    /\ LET env == plot.env
           T2 == vec_length2 * tan
           cut == cut_inc(plot.center, vec_length2, T2, env)
           width == hypot(cut.x1 - cut.x0 + 1, cut.y1 - cut.y0 + 1)
       IN  plot' = [pc |-> "cut", env |-> env, new_shape |-> plot.new_shape,
                    center |-> plot.center, vec_length2 |-> vec_length2,
                    tan |-> tan, width |-> width,
                    x |-> linspace(cut.x0, cut.x1, width, env),
                    y |-> linspace(cut.y0, cut.y1, width, env),
                    z |-> linspace(floor(plot.center[3] - 2 * round(T2, env)),
                                   ceil(plot.center[3] + 2 * round(T2, env)),
                                   width, env)]
    /\ UNCHANGED <<psivars, bessel>>

(* valid_x, valid_y, valid and data_cut = data[x[valid], y[valid], :].     *)
RestrictXY ==
    /\ plot.pc = "cut"
    /\ LET valid == [i \in 1..plot.width |->
                        /\ 0 <= plot.x[i] /\ plot.x[i] < plot.new_shape[1]
                        /\ 0 <= plot.y[i] /\ plot.y[i] < plot.new_shape[2]]
       IN  plot' = [pc |-> "restricted", env |-> plot.env,
                    new_shape |-> plot.new_shape, center |-> plot.center,
                    vec_length2 |-> plot.vec_length2, tan |-> plot.tan,
                    width |-> plot.width, x |-> plot.x, y |-> plot.y,
                    z |-> plot.z, valid |-> valid,
                    rows |-> {<<plot.x[i], plot.y[i]>> :
                                 i \in {j \in 1..plot.width : valid[j]}}]
    /\ UNCHANGED <<psivars, bessel>>

(* data_cut = data_cut[:, z]: an index below -new_shape[2] or from         *)
(* new_shape[2] on raises IndexError, a negative one above that counts     *)
(* from the end of the axis.                                               *)
ExtractZ ==
    /\ plot.pc = "restricted"
    /\ LET N == plot.new_shape[3]
           raises == \E j \in 1..plot.width : plot.z[j] < -N \/ plot.z[j] >= N
       IN  plot' = [pc |-> "done", env |-> plot.env,
                    new_shape |-> plot.new_shape, center |-> plot.center,
                    vec_length2 |-> plot.vec_length2, tan |-> plot.tan,
                    width |-> plot.width, x |-> plot.x, y |-> plot.y,
                    z |-> plot.z, valid |-> plot.valid, rows |-> plot.rows,
                    raised |-> raises,
                    columns |-> IF raises THEN <<>>
                                ELSE [j \in 1..plot.width |-> plot.z[j] % N]]
    /\ UNCHANGED <<psivars, bessel>>

NextPlot ==
    \/ \E shape \in Shapes, env \in Envs : LoadData(shape, env)
    \/ \E vec_length2 \in 0..MaxVecLength2, tan \in TanVals :
          CutPlane(vec_length2, tan)
    \/ RestrictXY
    \/ ExtractZ

SpecPlot == Init /\ [][NextPlot]_vars

(* C14: when the cut-plane has been extracted, every index used on the     *)
(* cropped array is within its bounds: 0 <= x < new_shape[0] and           *)
(* 0 <= y < new_shape[1] for every selected sample and                     *)
(* 0 <= z < new_shape[2] for every index in z, so that no IndexError is    *)
(* raised and no negative index counts from the end of the axis.           *)
C14_CutPlaneIndicesInBounds ==
    plot.pc = "done" =>
       /\ \A i \in 1..plot.width :
             plot.valid[i] =>
                /\ 0 <= plot.x[i] /\ plot.x[i] < plot.new_shape[1]
                /\ 0 <= plot.y[i] /\ plot.y[i] < plot.new_shape[2]
       /\ \A j \in 1..plot.width :
             0 <= plot.z[j] /\ plot.z[j] < plot.new_shape[3]
       /\ ~plot.raised
       /\ \A j \in 1..plot.width : plot.columns[j] = plot.z[j]

(* An extraction with selected samples that reads a column counted from    *)
(* the end of the z axis.                                                  *)
C14_NegativeZIndexWraps ==
    /\ plot.pc = "done"
    /\ \E i \in 1..plot.width : plot.valid[i]
    /\ ~plot.raised
    /\ \E j \in 1..plot.width :
          plot.z[j] < 0 /\ plot.columns[j] = plot.new_shape[3] + plot.z[j]

====
